---------------------------- MODULE Spec2Model ----------------------------
(***************************************************************************)
(* Model of the MTG retrieval-augmented answering pipeline                 *)
(* (rag_retrieval.py, class MTGRAGPipeline) and of the ingestion script    *)
(* (mtg_weaviate.py).                                                      *)
(*                                                                         *)
(* Conventions.  A Python value that may be None is wrapped: None is the   *)
(* record [none |-> TRUE], any other value v is [some |-> v].  A Python    *)
(* string built by concatenation is the sequence of its pieces, the empty  *)
(* string being the empty sequence.  Scores are integers in thousandths    *)
(* (700 is 0.7), temperatures in tenths (1 is 0.1).                        *)
(***************************************************************************)
EXTENDS Integers, Sequences, FiniteSets, TLC

VARIABLES
    pc,              \* position of the running program
    question,        \* answer_question: question
    limits,          \* answer_question: limits (None when omitted)
    min_score,       \* answer_question: min_score
    temperature,     \* answer_question: temperature
    include_debug,   \* answer_question: include_debug
    clock,           \* the value the next datetime.now() reads
    returned,        \* what the search collaborator did, per collection
    calls,           \* collaborator calls issued so far, in order
    search_results,  \* search_all_collections: results
    context,         \* format_context_for_llm: context_parts
    gen_request,     \* the request handed to chat.completions.create
    generated,       \* what the generation collaborator did
    answer,          \* generate_answer: the returned text
    outcome,         \* what answer_question returned or raised
    questions,       \* batch_answer_questions: questions
    kwargs,          \* batch_answer_questions: **kwargs
    taken,           \* batch_answer_questions: questions the loop has taken
    batch_results,   \* batch_answer_questions: results
    batch_env,       \* what the collaborators did for each batch question
    splitText,       \* mtg_weaviate.py: the chunks of mtg_rules.txt
    cards_data,      \* mtg_weaviate.py: the values of cards_text['data']
    pos,             \* records the running ingestion loop has taken
    number_errors,   \* batch.number_errors of the open batch
    submitted,       \* objects handed to batch.add_object, per collection
    stopped,         \* loops that printed "Batch import stopped ..."
    visited,         \* records each loop has taken through its error check
    last_read        \* batch.number_errors as each loop last read it

pipeline_vars == <<pc, question, limits, min_score, temperature, include_debug,
                   clock, returned, calls, search_results, context,
                   gen_request, generated, answer, outcome>>
batch_vars == <<questions, kwargs, taken, batch_results, batch_env>>
ingest_vars == <<splitText, cards_data, pos, number_errors, submitted, stopped,
                 visited, last_read>>
vars == <<pipeline_vars, batch_vars, ingest_vars>>

----------------------------------------------------------------------------
(* Python values *)

None == [none |-> TRUE]
Some(v) == [some |-> v]
IsNone(x) == "none" \in DOMAIN x

\* str(s) as a piece of a formatted string: the empty string adds nothing
Str(s) == IF s = "" THEN <<>> ELSE <<s>>

\* dict.get(key, default)
Get(d, key, default) == IF key \in DOMAIN d THEN d[key] ELSE default

\* all sequences over S of length at most n
SeqUpTo(S, n) == UNION {[1..k -> S] : k \in 0..n}

----------------------------------------------------------------------------
(* Bounds and inputs *)

MaxResp == 2        \* candidates in one collaborator response
MaxLimit == 2       \* largest explicit per-collection limit
MaxQuestions == 2   \* questions in one batch
MaxFmtObjs == 1     \* results in the collection given to the formatter alone
MaxRules == 2       \* chunks of the rulebook
MaxCards == 2       \* entries of cards_text['data']

DefaultLimit == 3
DefaultMinScore == 700
DefaultTemperature == 1
MaxTokens == 1000

CollectionIds == {"rules", "cards", "rulings"}

collections ==
    [rules |-> "MTGOfficialRules", cards |-> "MTGCards", rulings |-> "MTGRulings"]

DefaultLimits == [c \in CollectionIds |-> DefaultLimit]

Questions == {"q1", "q2"}
SingleQuestions == {"q1"}
Scores == {700, 800}
MinScores == {DefaultMinScore, 800}
Temperatures == {DefaultTemperature}

\* limits arguments: omitted, or a mapping over any set of collection keys
LimitsArgs ==
    {None} \cup {Some([c \in CollectionIds |-> L]) : L \in 1..MaxLimit}
           \cup {Some([c \in D |-> 1]) : D \in SUBSET CollectionIds}

\* properties of a well-formed object of each collection
FullProps(c) ==
    CASE c = "rules" -> [rule |-> "702.19b", rule_number |-> "702.19", section |-> "7"]
      [] c = "cards" -> [name |-> "Shock", manaCost |-> "R", type |-> "Instant",
                         text |-> "deals 2", power |-> "2", toughness |-> "1"]
      [] c = "rulings" -> [name |-> "Shock", rulings |-> "2004-10-04 ruling"]

Obj(props, score) == [properties |-> props, metadata |-> [score |-> score]]

\* well-formed candidates, and two malformed ones
GoodObjs(c) == {Obj(Some(FullProps(c)), Some(s)) : s \in Scores}
NoScoreObj(c) == Obj(Some(FullProps(c)), None)
NoPropsObj == Obj(None, Some(800))

\* what the search collaborator can do for one near_text call
Raised(detail) == [kind |-> "raise", detail |-> detail, objects |-> <<>>]
Returned(objs) == [kind |-> "ok", detail |-> "", objects |-> objs]
SearchFailures == {"timeout", "not_found"}
Responses(c) ==
    {Raised(d) : d \in SearchFailures}
      \cup {Returned(objs) : objs \in SeqUpTo(GoodObjs(c), MaxResp)}
      \cup {Returned(<<NoScoreObj(c)>>), Returned(<<NoPropsObj>>)}

\* what the generation collaborator can do
GenFailures == {"quota", "timeout"}
GenOutcomes ==
    {[kind |-> "raise", detail |-> d] : d \in GenFailures}
      \cup {[kind |-> "ok", detail |-> "generated text"]}

----------------------------------------------------------------------------
(* search_all_collections *)

\* datetime.now().isoformat()
isoformat(t) == ToString(t)

\* mutant: the default is filled in for each missing key
ResolveLimits_per_key(lims) ==
    IF IsNone(lims) THEN DefaultLimits
    ELSE [c \in CollectionIds |-> Get(lims.some, c, DefaultLimit)]

\* if limits is None: limits = {"rules": 3, "cards": 3, "rulings": 3}
ResolveLimits(lims) == IF IsNone(lims) THEN DefaultLimits ELSE lims.some

\* results = {"rules": [], "cards": [], "rulings": [], "search_metadata": {...}}
InitialResults(query, lims, ms, now) ==
    [rules |-> <<>>, cards |-> <<>>, rulings |-> <<>>,
     search_metadata |-> [query |-> query, timestamp |-> isoformat(now),
                          limits |-> ResolveLimits(lims), min_score |-> ms]]

\* limits["<collection>"] is evaluated before near_text is called: a missing
\* key raises KeyError inside the try block and no search is issued
NearTextIssued(c, lim) == c \in DOMAIN lim

\* obj.metadata.score >= min_score raises TypeError when the score is None
ScoreCompareRaises(objs) ==
    \E i \in 1..Len(objs) : IsNone(objs[i].metadata.score)

\* mutant: the threshold is not applied
filter_keeps_all(objs, ms) == objs

\* mutant: a score equal to the threshold is dropped
filter_strict(objs, ms) ==
    SelectSeq(objs, LAMBDA o : o.metadata.score.some > ms)

\* [obj for obj in response.objects if obj.metadata.score >= min_score]
filter_by_score(objs, ms) ==
    SelectSeq(objs, LAMBDA o : o.metadata.score.some >= ms)

\* the try body of one collection raises
TryRaises(c, lim, ms, resp) ==
    \/ ~NearTextIssued(c, lim)
    \/ resp.kind = "raise"
    \/ ScoreCompareRaises(resp.objects)

\* mutant: the failure of one collection wipes the others' results too
on_search_error_wipes_all(results, c) ==
    [results EXCEPT !["rules"] = <<>>, !["cards"] = <<>>, !["rulings"] = <<>>]

\* except Exception as e: logger.error(...); results["<collection>"] = []
on_search_error(results, c) == [results EXCEPT ![c] = <<>>]

\* one try/except block of search_all_collections
search_collection(results, c, lim, ms, resp) ==
    IF TryRaises(c, lim, ms, resp)
    THEN on_search_error(results, c)
    ELSE [results EXCEPT ![c] = filter_by_score(resp.objects, ms)]

\* the whole function, resp[c] being what the collaborator does for c
search_all_collections(query, lims, ms, now, resp) ==
    LET lim == ResolveLimits(lims)
        r0 == InitialResults(query, lims, ms, now)
        r1 == search_collection(r0, "rules", lim, ms, resp["rules"])
        r2 == search_collection(r1, "cards", lim, ms, resp["cards"])
    IN search_collection(r2, "rulings", lim, ms, resp["rulings"])

----------------------------------------------------------------------------
(* format_context_for_llm *)

\* f"{score:.3f}" of a score given in thousandths
Fmt3(s) ==
    <<ToString(s \div 1000), ".", ToString((s \div 100) % 10),
      ToString((s \div 10) % 10), ToString(s % 10)>>

Header(c) ==
    CASE c = "rules" -> "=== OFFICIAL RULES ==="
      [] c = "cards" -> "=== RELEVANT CARDS ==="
      [] c = "rulings" -> "=== OFFICIAL RULINGS ==="

\* f"{i}. [Score: {score:.3f}] "
EntryPrefix(i, obj) ==
    <<ToString(i), ". [Score: ">> \o Fmt3(obj.metadata.score.some) \o <<"] ">>

rule_entry(i, obj) ==
    LET p == obj.properties.some
        rule_text == Get(p, "rule", "")
    IN EntryPrefix(i, obj) \o Str(rule_text)

card_entry(i, obj) ==
    LET p == obj.properties.some
        name == Get(p, "name", "Unknown Card")
        text == Get(p, "text", "")
        card_type == Get(p, "type", "")
        manacost == Get(p, "manacost", "")
        power == Get(p, "power", "")
        toughness == Get(p, "toughness", "")
    IN EntryPrefix(i, obj) \o Str(name)
         \o (IF manacost # "" THEN <<" ", manacost>> ELSE <<>>)
         \o (IF card_type # "" THEN <<" - ", card_type>> ELSE <<>>)
         \o (IF power # "" /\ toughness # ""
             THEN <<" (", power, "/", toughness, ")">> ELSE <<>>)
         \o (IF text # "" THEN <<"\n   Text: ", text>> ELSE <<>>)

ruling_entry(i, obj) ==
    LET p == obj.properties.some
        name == Get(p, "name", "Unknown Card")
        ruling == Get(p, "rulings", "")
        ruling_date == Get(p, "ruling_date", "")
        source == Get(p, "source", "")
    IN EntryPrefix(i, obj) \o Str(name)
         \o (IF ruling_date # "" THEN <<" (", ruling_date, ")">> ELSE <<>>)
         \o (IF source # "" THEN <<" - Source: ", source>> ELSE <<>>)
         \o <<"\n   Ruling: ">> \o Str(ruling)

Entry(c, i, obj) ==
    CASE c = "rules" -> rule_entry(i, obj)
      [] c = "cards" -> card_entry(i, obj)
      [] c = "rulings" -> ruling_entry(i, obj)

\* mutant: the header is written for an empty collection too
Section_always_header(c, objs) ==
    <<<<Header(c)>>>> \o [i \in 1..Len(objs) |-> Entry(c, i, objs[i])] \o <<<<>>>>

\* if search_results[c]: header, one entry per result, a blank line
Section(c, objs) ==
    IF objs = <<>> THEN <<>>
    ELSE <<<<Header(c)>>>> \o [i \in 1..Len(objs) |-> Entry(c, i, objs[i])] \o <<<<>>>>

\* obj.properties.get(...) raises AttributeError when properties is None,
\* f"{score:.3f}" raises TypeError when the score is None
FormatRaises(sr) ==
    \E c \in CollectionIds : \E i \in 1..Len(sr[c]) :
        IsNone(sr[c][i].properties) \/ IsNone(sr[c][i].metadata.score)

\* context_parts, one element per appended string; [raised |-> ...] when
\* the function raises
format_context_for_llm(sr) ==
    LET metadata == Get(sr, "search_metadata", <<>>)
    IN IF FormatRaises(sr) THEN [raised |-> "format_context_for_llm"]
       ELSE [value |->
                <<<<"SEARCH QUERY: ", Get(metadata, "query", "Unknown")>>,
                  <<"SEARCH TIMESTAMP: ", Get(metadata, "timestamp", "Unknown")>>,
                  <<>>>>
                \o Section("rules", sr["rules"])
                \o Section("cards", sr["cards"])
                \o Section("rulings", sr["rulings"])]

----------------------------------------------------------------------------
(* generate_answer *)

\* the arguments of openai_client.chat.completions.create
GenRequest(q, ctx, temp) ==
    [model |-> "gpt-4", question |-> q, context |-> ctx,
     temperature |-> temp, max_tokens |-> MaxTokens]

\* mutant: the error text does not carry the failure detail
generate_answer_drops_detail(q, ctx, temp, gen) ==
    IF gen.kind = "raise"
    THEN <<"I encountered an error while generating the answer">>
    ELSE <<gen.detail>>

\* try: return response.choices[0].message.content
\* except Exception as e: return f"I encountered an error ...: {str(e)}"
generate_answer(q, ctx, temp, gen) ==
    IF gen.kind = "raise"
    THEN <<"I encountered an error while generating the answer: ", gen.detail>>
    ELSE <<gen.detail>>

----------------------------------------------------------------------------
(* answer_question *)

SourcesFound(sr) == [c \in CollectionIds |-> Len(sr[c])]

\* Step 4: Prepare response
AnswerRecord(q, ans, now, sr, ctx, lims, ms, temp, dbg) ==
    IF dbg
    THEN [question |-> q, answer |-> ans, timestamp |-> isoformat(now),
          sources_found |-> SourcesFound(sr),
          debug |-> [search_results |-> sr, formatted_context |-> ctx,
                     search_params |-> [limits |-> lims, min_score |-> ms,
                                        temperature |-> temp]]]
    ELSE [question |-> q, answer |-> ans, timestamp |-> isoformat(now),
          sources_found |-> SourcesFound(sr)]

\* the whole call: [value |-> record] when it returns, [raised |-> ...] when
\* it raises; env is what the collaborators do during the call
answer_question(q, lims, ms, temp, dbg, now, env) ==
    LET sr == search_all_collections(q, lims, ms, now, env.resp)
        fc == format_context_for_llm(sr)
    IN IF "raised" \in DOMAIN fc THEN [raised |-> fc.raised]
       ELSE [value |-> AnswerRecord(q, generate_answer(q, fc.value, temp, env.gen),
                                    now + 1, sr, fc.value, lims, ms, temp, dbg)]

----------------------------------------------------------------------------
----------------------------------------------------------------------------
(* One answer_question call, a step per collaborator call *)

NoBatch ==
    /\ questions = <<>>
    /\ kwargs = <<>>
    /\ taken = 0
    /\ batch_results = <<>>
    /\ batch_env = <<>>

NoIngest ==
    /\ splitText = <<>>
    /\ cards_data = <<>>
    /\ pos = 0
    /\ number_errors = 0
    /\ submitted = [c \in CollectionIds |-> <<>>]
    /\ stopped = {}
    /\ visited = [c \in CollectionIds |-> 0]
    /\ last_read = [c \in CollectionIds |-> 0]

Init ==
    /\ pc = "call"
    /\ question \in SingleQuestions
    /\ limits \in LimitsArgs
    /\ min_score \in MinScores
    /\ temperature \in Temperatures
    /\ include_debug \in BOOLEAN
    /\ clock = 0
    /\ returned = [c \in CollectionIds |-> None]
    /\ calls = <<>>
    /\ search_results = None
    /\ context = None
    /\ gen_request = None
    /\ generated = None
    /\ answer = None
    /\ outcome = None
    /\ NoBatch
    /\ NoIngest

\* answer_question enters search_all_collections: defaults and results dict
Call ==
    /\ pc = "call"
    /\ search_results' = InitialResults(question, limits, min_score, clock)
    /\ clock' = clock + 1
    /\ pc' = "rules"
    /\ UNCHANGED <<question, limits, min_score, temperature, include_debug,
                   returned, calls, context, gen_request, generated, answer,
                   outcome, batch_vars, ingest_vars>>

\* one try/except block: the near_text call, the filter, the handler
Search(c, next) ==
    /\ pc = c
    /\ LET lim == search_results.search_metadata.limits
       IN IF NearTextIssued(c, lim)
          THEN \E resp \in Responses(c) :
                 /\ search_results' =
                        search_collection(search_results, c, lim, min_score, resp)
                 /\ returned' = [returned EXCEPT ![c] = Some(resp)]
                 /\ calls' = Append(calls, c)
          ELSE /\ search_results' =
                        search_collection(search_results, c, lim, min_score,
                                          Raised("KeyError"))
               /\ UNCHANGED <<returned, calls>>
    /\ pc' = next
    /\ UNCHANGED <<question, limits, min_score, temperature, include_debug,
                   clock, context, gen_request, generated, answer, outcome,
                   batch_vars, ingest_vars>>

SearchRules == Search("rules", "cards")
SearchCards == Search("cards", "rulings")
SearchRulings == Search("rulings", "format")

\* Step 2: context = self.format_context_for_llm(search_results)
Format ==
    /\ pc = "format"
    /\ LET fc == format_context_for_llm(search_results)
       IN IF "raised" \in DOMAIN fc
          THEN /\ outcome' = [raised |-> fc.raised]
               /\ pc' = "raised"
               /\ UNCHANGED context
          ELSE /\ context' = Some(fc.value)
               /\ pc' = "generate"
               /\ UNCHANGED outcome
    /\ UNCHANGED <<question, limits, min_score, temperature, include_debug,
                   clock, returned, calls, search_results, gen_request,
                   generated, answer, batch_vars, ingest_vars>>

\* Step 3: answer = self.generate_answer(question, context, temperature)
Generate ==
    /\ pc = "generate"
    /\ \E gen \in GenOutcomes :
         /\ generated' = Some(gen)
         /\ answer' = Some(generate_answer(question, context.some, temperature, gen))
    /\ gen_request' = Some(GenRequest(question, context.some, temperature))
    /\ calls' = Append(calls, "generate")
    /\ pc' = "respond"
    /\ UNCHANGED <<question, limits, min_score, temperature, include_debug,
                   clock, returned, search_results, context, outcome,
                   batch_vars, ingest_vars>>

\* Step 4: build the result dict and return it
Respond ==
    /\ pc = "respond"
    /\ outcome' = [value |-> AnswerRecord(question, answer.some, clock,
                                          search_results, context.some, limits,
                                          min_score, temperature, include_debug)]
    /\ clock' = clock + 1
    /\ pc' = "returned"
    /\ UNCHANGED <<question, limits, min_score, temperature, include_debug,
                   returned, calls, search_results, context, gen_request,
                   generated, answer, batch_vars, ingest_vars>>

Next ==
    \/ Call
    \/ SearchRules
    \/ SearchCards
    \/ SearchRulings
    \/ Format
    \/ Generate
    \/ Respond

Spec == Init /\ [][Next]_vars

----------------------------------------------------------------------------
(* batch_answer_questions, an iteration of its loop per step *)

\* **kwargs: any of the keyword arguments of answer_question may be absent
KwargsArgs ==
    {<<>>}
      \cup {[include_debug |-> d] : d \in BOOLEAN}
      \cup {[limits |-> Some([c \in CollectionIds |-> 2]), min_score |-> 800,
             temperature |-> 5, include_debug |-> d] : d \in BOOLEAN}

\* every collection answers with one good object, except that one collection
\* may fail, return nothing, or return an object without properties
GoodResp == [c \in CollectionIds |-> Returned(<<Obj(Some(FullProps(c)), Some(800))>>)]
BatchResps ==
    {GoodResp}
      \cup {[GoodResp EXCEPT ![c] = r] :
              c \in CollectionIds,
              r \in {Raised("timeout"), Returned(<<>>), Returned(<<NoPropsObj>>)}}
BatchEnvs ==
    {[resp |-> r, gen |-> g] :
       r \in BatchResps,
       g \in {[kind |-> "raise", detail |-> "quota"],
              [kind |-> "ok", detail |-> "generated text"]}}

\* self.answer_question(question, **kwargs) with the defaults of its signature
call_with_kwargs(q, kw, now, env) ==
    answer_question(q, Get(kw, "limits", None),
                    Get(kw, "min_score", DefaultMinScore),
                    Get(kw, "temperature", DefaultTemperature),
                    Get(kw, "include_debug", FALSE), now, env)

\* mutant: the failed question is logged but no record is appended
on_question_error_drops(results, q, e) == results

\* except Exception as e: results.append({"question", "answer", "error": True})
on_question_error(results, q, e) ==
    Append(results, [question |-> q,
                     answer |-> <<"Error processing question: ", e>>,
                     error |-> TRUE])

\* try: result = self.answer_question(...); results.append(result)
on_question_result(results, q, r) ==
    IF "raised" \in DOMAIN r
    THEN on_question_error(results, q, r.raised)
    ELSE Append(results, r.value)

\* datetime.now() is read once by search_all_collections and once more when
\* the call gets to build its result
ClockReads(r) == IF "raised" \in DOMAIN r THEN 1 ELSE 2

IdlePipeline ==
    /\ question = None
    /\ limits = None
    /\ min_score = None
    /\ temperature = None
    /\ include_debug = None
    /\ returned = None
    /\ calls = <<>>
    /\ context = None
    /\ gen_request = None
    /\ generated = None
    /\ answer = None
    /\ outcome = None

BatchInit ==
    /\ pc = "batch"
    /\ questions \in SeqUpTo(Questions, MaxQuestions)
    /\ kwargs \in KwargsArgs
    /\ taken = 0
    /\ batch_results = <<>>
    /\ batch_env = <<>>
    /\ clock = 0
    /\ search_results = None
    /\ IdlePipeline
    /\ NoIngest

\* one iteration of: for i, question in enumerate(questions, 1)
BatchStep ==
    /\ pc = "batch"
    /\ taken < Len(questions)
    /\ taken' = taken + 1
    /\ LET q == questions[taken + 1]
       IN \E env \in BatchEnvs :
            LET r == call_with_kwargs(q, kwargs, clock, env)
            IN /\ batch_results' = on_question_result(batch_results, q, r)
               /\ batch_env' = Append(batch_env, env)
               /\ clock' = clock + ClockReads(r)
    /\ UNCHANGED <<pc, question, limits, min_score, temperature, include_debug,
                   returned, calls, search_results, context, gen_request,
                   generated, answer, outcome, questions, kwargs, ingest_vars>>

\* return results
BatchReturn ==
    /\ pc = "batch"
    /\ taken = Len(questions)
    /\ outcome' = [value |-> batch_results]
    /\ pc' = "batch_done"
    /\ UNCHANGED <<question, limits, min_score, temperature, include_debug,
                   clock, returned, calls, search_results, context,
                   gen_request, generated, answer, batch_vars, ingest_vars>>

BatchNext ==
    \/ BatchStep
    \/ BatchReturn

SpecBatch == BatchInit /\ [][BatchNext]_vars

----------------------------------------------------------------------------
(* format_context_for_llm alone, on results of one collection *)

SampleValue ==
    [rule |-> "702.19b", rule_number |-> "702.19", section |-> "7",
     name |-> "Shock", manaCost |-> "R", manacost |-> "R", type |-> "Instant",
     text |-> "deals 2", power |-> "2", toughness |-> "1",
     rulings |-> "ruling text", ruling_date |-> "2004-10-04", source |-> "wotc"]

\* the keys format_context_for_llm reads, and the schema's manaCost
FormatKeys(c) ==
    CASE c = "rules" -> {"rule", "rule_number"}
      [] c = "cards" -> {"name", "text", "type", "manacost", "manaCost",
                         "power", "toughness"}
      [] c = "rulings" -> {"name", "rulings", "ruling_date", "source"}

\* objects of collection c holding any subset of the keys
FormatObjs(c) ==
    {Obj(Some([k \in D |-> SampleValue[k]]), Some(s)) :
       D \in SUBSET FormatKeys(c), s \in {800}}

FormatInputsOf(c) ==
    {[InitialResults(q, None, DefaultMinScore, 0) EXCEPT ![c] = objs] :
       q \in SingleQuestions, objs \in SeqUpTo(FormatObjs(c), MaxFmtObjs)}
FormatInputs == UNION {FormatInputsOf(c) : c \in CollectionIds}

FormatInit ==
    /\ pc = "format_only"
    /\ search_results \in FormatInputs
    /\ clock = 1
    /\ IdlePipeline
    /\ NoBatch
    /\ NoIngest

FormatOnly ==
    /\ pc = "format_only"
    /\ LET fc == format_context_for_llm(search_results)
       IN IF "raised" \in DOMAIN fc
          THEN /\ outcome' = [raised |-> fc.raised]
               /\ UNCHANGED context
          ELSE /\ context' = Some(fc.value)
               /\ UNCHANGED outcome
    /\ pc' = "formatted"
    /\ UNCHANGED <<question, limits, min_score, temperature, include_debug,
                   clock, returned, calls, search_results, gen_request,
                   generated, answer, batch_vars, ingest_vars>>

FormatNext == FormatOnly

SpecFormat == FormatInit /\ [][FormatNext]_vars

----------------------------------------------------------------------------
(* mtg_weaviate.py: the three ingestion loops *)

ErrorThreshold == 10

RuleTexts == {"100.1. These rules apply"}

\* str(ruling).replace("\"", "").replace("\'", "")
StripQuotes(t) ==
    CASE t = "it's \"2\" damage" -> "its 2 damage"
      [] OTHER -> t

\* card_info.get("manaCost", "").replace("{", "").replace("}", "")
StripBraces(t) ==
    CASE t = "{R}" -> "R"
      [] t = "{1}{U}" -> "1U"
      [] OTHER -> t

\* card_info dicts: complete, without optional fields, and missing fields
CardInfos ==
    {[name |-> "Shock", manaCost |-> "{R}", type |-> "Instant",
      rulings |-> <<[date |-> "2004-10-04", text |-> "it's \"2\" damage"]>>],
     [name |-> "Opt"],
     [type |-> "Land"],
     [type |-> "Instant", rulings |-> <<[date |-> "2004-10-04", text |-> "t"]>>],
     [name |-> "Bolt", rulings |-> <<[date |-> "2004-10-04"]>>]}

\* the value lists of cards_text['data']: one card_info, or an empty list
CardValues == {<<>>} \cup {<<ci>> : ci \in CardInfos}

\* rulingsStr: the texts of the rulings, quotes removed, run together
RulingsStr(rulings) == [i \in 1..Len(rulings) |-> StripQuotes(rulings[i].text)]

\* one iteration of the rulings loop up to add_object: [raised |-> e] when it
\* raises, [skip |-> TRUE] when nothing is added, [add |-> properties]
rulings_record(value) ==
    IF Len(value) = 0 THEN [raised |-> "IndexError"]
    ELSE LET card_info == value[1]
         IN IF "rulings" \notin DOMAIN card_info THEN [skip |-> TRUE]
            ELSE IF \E i \in 1..Len(card_info.rulings) :
                      "text" \notin DOMAIN card_info.rulings[i]
            THEN [raised |-> "KeyError: text"]
            ELSE IF "name" \notin DOMAIN card_info THEN [raised |-> "KeyError: name"]
            ELSE [add |-> [name |-> card_info.name,
                           rulings |-> RulingsStr(card_info.rulings)]]

\* one iteration of the cards loop up to add_object
cards_record(value) ==
    IF Len(value) = 0 THEN [raised |-> "IndexError"]
    ELSE LET card_info == value[1]
         IN IF "name" \notin DOMAIN card_info THEN [raised |-> "KeyError: name"]
            ELSE [add |-> [name |-> card_info.name,
                           manaCost |-> StripBraces(Get(card_info, "manaCost", "")),
                           type |-> Get(card_info, "type", ""),
                           text |-> Get(card_info, "text", ""),
                           power |-> Get(card_info, "power", ""),
                           toughness |-> Get(card_info, "toughness", ""),
                           colors |-> Get(card_info, "colors", "")]]

\* one iteration of the rules loop up to add_object
rules_record(src_obj) == [add |-> [rule |-> src_obj]]

\* the values batch.number_errors can show at the next read: the client
\* counts failures in the background, so it may stay, grow by one, or jump
\* to the threshold or past it
ErrorReads(e) == {n \in {e, e + 1, ErrorThreshold, ErrorThreshold + 1} : n >= e}

\* if batch.number_errors > 10: print(...); break
LoopBreaks(e) == e > ErrorThreshold

IngestInit ==
    /\ pc = "ingest_rules"
    /\ splitText \in SeqUpTo(RuleTexts \cup {""}, MaxRules) \ {<<>>}
    /\ cards_data \in SeqUpTo(CardValues, MaxCards)
    /\ pos = 0
    /\ number_errors = 0
    /\ submitted = [c \in CollectionIds |-> <<>>]
    /\ stopped = {}
    /\ visited = [c \in CollectionIds |-> 0]
    /\ last_read = [c \in CollectionIds |-> 0]
    /\ clock = 0
    /\ search_results = None
    /\ IdlePipeline
    /\ NoBatch

\* one iteration of a loop over source, for collection c, leaving to pc value
\* next when the loop breaks
LoopStep(c, rec, next) ==
    IF "raised" \in DOMAIN rec
    THEN /\ outcome' = [raised |-> rec.raised]
         /\ pc' = "ingest_crashed"
         /\ UNCHANGED <<pos, number_errors, submitted, stopped, visited, last_read>>
    ELSE /\ submitted' = IF "add" \in DOMAIN rec
                         THEN [submitted EXCEPT ![c] = Append(@, rec.add)]
                         ELSE submitted
         /\ visited' = [visited EXCEPT ![c] = @ + 1]
         /\ \E e \in ErrorReads(number_errors) :
              /\ last_read' = [last_read EXCEPT ![c] = e]
              /\ IF LoopBreaks(e)
                 THEN /\ stopped' = stopped \cup {c}
                      /\ pc' = next
                      /\ pos' = 0
                      /\ number_errors' = 0
                 ELSE /\ pos' = pos + 1
                      /\ number_errors' = e
                      /\ UNCHANGED <<pc, stopped>>
         /\ UNCHANGED outcome

\* the loop has taken every record: the with block ends, the next one opens
LoopEnd(source, c, next) ==
    /\ pc = c
    /\ pos = Len(source)
    /\ pc' = next
    /\ pos' = 0
    /\ number_errors' = 0
    /\ UNCHANGED <<question, limits, min_score, temperature, include_debug,
                   clock, returned, calls, search_results, context,
                   gen_request, generated, answer, outcome, batch_vars,
                   splitText, cards_data, submitted, stopped, visited,
                   last_read>>

IngestUnchanged ==
    UNCHANGED <<question, limits, min_score, temperature, include_debug,
                clock, returned, calls, search_results, context,
                gen_request, generated, answer, batch_vars,
                splitText, cards_data>>

RulesStep ==
    /\ pc = "ingest_rules"
    /\ pos < Len(splitText)
    /\ LoopStep("rules", rules_record(splitText[pos + 1]), "ingest_rulings")
    /\ IngestUnchanged

RulesEnd == LoopEnd(splitText, "ingest_rules", "ingest_rulings")

RulingsStep ==
    /\ pc = "ingest_rulings"
    /\ pos < Len(cards_data)
    /\ LoopStep("rulings", rulings_record(cards_data[pos + 1]), "ingest_cards")
    /\ IngestUnchanged

RulingsEnd == LoopEnd(cards_data, "ingest_rulings", "ingest_cards")

CardsStep ==
    /\ pc = "ingest_cards"
    /\ pos < Len(cards_data)
    /\ LoopStep("cards", cards_record(cards_data[pos + 1]), "ingest_done")
    /\ IngestUnchanged

CardsEnd == LoopEnd(cards_data, "ingest_cards", "ingest_done")

IngestNext ==
    \/ RulesStep
    \/ RulesEnd
    \/ RulingsStep
    \/ RulingsEnd
    \/ CardsStep
    \/ CardsEnd

SpecIngest == IngestInit /\ [][IngestNext]_vars

----------------------------------------------------------------------------
(* Claims about search_all_collections, checked under Spec *)

\* the limits in force during the call
AppliedLimits == search_results.search_metadata.limits

Searched(c) == ~IsNone(returned[c])
ReturnedObjs(c) == returned[c].some.objects

\* the collaborator failed for c: it raised, or its response cannot be read
SearchFailed(c) ==
    /\ Searched(c)
    /\ \/ returned[c].some.kind = "raise"
       \/ \E i \in 1..Len(ReturnedObjs(c)) : IsNone(ReturnedObjs(c)[i].metadata.score)

SearchSucceeded(c) == Searched(c) /\ ~SearchFailed(c)

AllSearchesDone == pc \in {"format", "generate", "respond", "returned", "raised"}

\* the k-th smallest element of a set of indices
KthSmallest(S, k) == CHOOSE i \in S : Cardinality({j \in S : j < i}) = k - 1

\* res is objs restricted to the positions whose score is at least T, in order
IsKeptSubsequence(res, objs, T) ==
    LET kept == {i \in 1..Len(objs) : objs[i].metadata.score.some >= T}
    IN /\ Len(res) = Cardinality(kept)
       /\ \A k \in 1..Len(res) : res[k] = objs[KthSmallest(kept, k)]

AllScoresAtLeast(objs, T) ==
    \A i \in 1..Len(objs) : objs[i].metadata.score.some >= T

\* C1 as stated: for every collection with a limit L, at most L results are
\* retained and each has score >= T, whatever the collaborator returns.
C1_CountWithinLimit ==
    ~IsNone(search_results) =>
        \A c \in DOMAIN AppliedLimits :
            /\ Len(search_results[c]) <= AppliedLimits[c]
            /\ AllScoresAtLeast(search_results[c], min_score)

\* C1 amended: every retained result has score >= T whatever the collaborator
\* returns; the number retained never exceeds the number of candidates the
\* collaborator returned, so it is <= L whenever the collaborator returned at
\* most L candidates (the code passes L on and does not truncate itself).
C1_ScoreAndCountBounded ==
    ~IsNone(search_results) =>
        \A c \in CollectionIds :
            /\ AllScoresAtLeast(search_results[c], min_score)
            /\ ~Searched(c) => search_results[c] = <<>>
            /\ Searched(c) => Len(search_results[c]) <= Len(ReturnedObjs(c))
            /\ (Searched(c) /\ c \in DOMAIN AppliedLimits
                  /\ Len(ReturnedObjs(c)) <= AppliedLimits[c])
                 => Len(search_results[c]) <= AppliedLimits[c]

\* a collaborator that honours a limit of 2, one candidate dropped, one kept
C1_Witness ==
    /\ AllSearchesDone
    /\ \E c \in CollectionIds :
         /\ c \in DOMAIN AppliedLimits
         /\ AppliedLimits[c] = 2
         /\ Searched(c)
         /\ Len(ReturnedObjs(c)) = 2
         /\ Len(search_results[c]) = 1

C6_ExactFilterInOrder ==
    ~IsNone(search_results) =>
        \A c \in CollectionIds :
            SearchSucceeded(c) =>
                IsKeptSubsequence(search_results[c], ReturnedObjs(c), min_score)

\* two candidates, the first with score equal to min_score, the second
\* above it, both retained in the returned order
C6_Witness ==
    /\ AllSearchesDone
    /\ \E c \in CollectionIds :
         /\ SearchSucceeded(c)
         /\ Len(ReturnedObjs(c)) = 2
         /\ ReturnedObjs(c)[1].metadata.score.some = min_score
         /\ ReturnedObjs(c)[2].metadata.score.some > min_score
         /\ search_results[c] = ReturnedObjs(c)

----------------------------------------------------------------------------
(* Claims about answer_question, checked under Spec *)

GenerationRaised == ~IsNone(generated) /\ generated.some.kind = "raise"

\* C3: when the generation collaborator raises, answer_question does not
\* raise and returns a record whose answer is a diagnostic text carrying the
\* failure detail, with question, timestamp and per-collection counts.
C3_GenerationFailureReported ==
    GenerationRaised =>
        /\ pc \in {"respond", "returned"}
        /\ pc = "returned" =>
             /\ DOMAIN outcome = {"value"}
             /\ outcome.value.question = question
             /\ Len(outcome.value.answer) = 2
             /\ outcome.value.answer[2] = generated.some.detail
             /\ outcome.value.timestamp \in {isoformat(t) : t \in 0..clock}
             /\ \A c \in CollectionIds :
                  outcome.value.sources_found[c] = Len(search_results[c])

\* the generation collaborator raised and answer_question has returned
C3_Witness ==
    /\ pc = "returned"
    /\ GenerationRaised
    /\ \E c \in CollectionIds : outcome.value.sources_found[c] > 0

\* C5 as stated: no failure of a collaborator makes answer_question raise.
C5_NeverRaises == pc # "raised"

\* the lines of the context
HasLine(ctx, line) == \E j \in 1..Len(ctx) : ctx[j] = line
LineIndex(ctx, line) == CHOOSE j \in 1..Len(ctx) : ctx[j] = line

\* the entries of a section: the lines after its header up to the next blank
SectionEnd(ctx, h) ==
    CHOOSE j \in (h + 1)..Len(ctx) :
        ctx[j] = <<>> /\ \A k \in (h + 1)..(j - 1) : ctx[k] # <<>>
SectionEntries(ctx, c) ==
    LET h == LineIndex(ctx, <<Header(c)>>)
    IN SubSeq(ctx, h + 1, SectionEnd(ctx, h) - 1)

\* C7: the context holds a collection's header exactly when the collection
\* has a retained result, and a section lists one entry per retained result.
C7_HeaderIffRetained ==
    ~IsNone(context) =>
        \A c \in CollectionIds :
            /\ HasLine(context.some, <<Header(c)>>) <=> search_results[c] # <<>>
            /\ search_results[c] # <<>> =>
                 Len(SectionEntries(context.some, c)) = Len(search_results[c])

\* one rules match above min_score, one cards match below it: a rules
\* section with one entry and no cards section
C7_Witness ==
    /\ ~IsNone(context)
    /\ SearchSucceeded("rules") /\ SearchSucceeded("cards")
    /\ Len(ReturnedObjs("rules")) = 1 /\ Len(ReturnedObjs("cards")) = 1
    /\ ReturnedObjs("cards")[1].metadata.score.some < min_score
    /\ HasLine(context.some, <<Header("rules")>>)
    /\ Len(SectionEntries(context.some, "rules")) = 1
    /\ ~HasLine(context.some, <<Header("cards")>>)

\* C8 as stated: with include_debug the record carries the raw results, the
\* context passed to generation and the limits, min_score and temperature
\* applied, also when limits was omitted; without it there is no payload.
C8_DebugHoldsAppliedParams ==
    pc = "returned" =>
        IF include_debug
        THEN /\ "debug" \in DOMAIN outcome.value
             /\ outcome.value.debug.search_results = search_results
             /\ outcome.value.debug.formatted_context = gen_request.some.context
             /\ outcome.value.debug.search_params.limits = Some(AppliedLimits)
             /\ outcome.value.debug.search_params.min_score
                  = search_results.search_metadata.min_score
             /\ outcome.value.debug.search_params.temperature
                  = gen_request.some.temperature
        ELSE "debug" \notin DOMAIN outcome.value

----------------------------------------------------------------------------
(* Claim about batch_answer_questions, checked under SpecBatch *)

QuestionRaised(i) ==
    "raised" \in DOMAIN call_with_kwargs(questions[i], kwargs, 0, batch_env[i])

\* C4: the returned list has one element per question, in order; a question
\* whose answer_question raised has an error record, every other question
\* its normal record without an error flag.
C4_BatchIsolatesFailures ==
    pc = "batch_done" =>
        /\ Len(outcome.value) = Len(questions)
        /\ \A i \in 1..Len(questions) :
             LET r == outcome.value[i]
             IN /\ r.question = questions[i]
                /\ IF QuestionRaised(i)
                   THEN /\ "error" \in DOMAIN r /\ r.error
                        /\ r.answer[1] = "Error processing question: "
                   ELSE /\ "error" \notin DOMAIN r
                        /\ {"timestamp", "sources_found"} \subseteq DOMAIN r
                        /\ r.answer = generate_answer(questions[i], <<>>, 0,
                                                      batch_env[i].gen)

\* a batch whose first question raised and whose second was answered
C4_Witness ==
    /\ pc = "batch_done"
    /\ Len(questions) >= 2
    /\ QuestionRaised(1)
    /\ ~QuestionRaised(2)
    /\ "error" \notin DOMAIN outcome.value[2]

----------------------------------------------------------------------------
(* Claim about the rendering of entries, checked under SpecFormat *)

Range(f) == {f[i] : i \in DOMAIN f}

\* the fields the claim names, with the keys that hold them and the labels
\* and separators the formatter writes for them
NamedFields(c) ==
    CASE c = "rules" -> {[keys |-> {"rule"}, marks |-> {}]}
      [] c = "cards" -> {[keys |-> {"manacost", "manaCost"}, marks |-> {" "}],
                         [keys |-> {"type"}, marks |-> {" - "}],
                         [keys |-> {"power"}, marks |-> {" (", "/", ")"}],
                         [keys |-> {"toughness"}, marks |-> {" (", "/", ")"}],
                         [keys |-> {"text"}, marks |-> {"\n   Text: "}]}
      [] c = "rulings" -> {[keys |-> {"rulings"}, marks |-> {"\n   Ruling: "}],
                           [keys |-> {"ruling_date"}, marks |-> {" (", ")"}],
                           [keys |-> {"source"}, marks |-> {" - Source: "}]}

\* C9 as stated: a named field missing from a result's properties leaves no
\* label and no separator in the result's entry.
C9_MissingFieldOmitted ==
    (pc = "formatted" /\ ~IsNone(context)) =>
        \A c \in CollectionIds : \A i \in 1..Len(search_results[c]) :
            \A f \in NamedFields(c) :
                (f.keys \cap DOMAIN search_results[c][i].properties.some = {})
                  => f.marks \cap Range(SectionEntries(context.some, c)[i]) = {}

----------------------------------------------------------------------------
(* Claim about the ingestion loops, checked under SpecIngest *)

\* C10 as stated: no source record with missing fields makes the script
\* fail; the loops go on to the next record.
C10_MalformedRecordSkipped == pc # "ingest_crashed"

\* the records each loop iterates over, and the loops in script order
Source(c) == IF c = "rules" THEN splitText ELSE cards_data
LoopPc(c) ==
    CASE c = "rules" -> "ingest_rules"
      [] c = "rulings" -> "ingest_rulings"
      [] c = "cards" -> "ingest_cards"
ScriptEnded == pc \in {"ingest_done", "ingest_crashed"}

\* the threshold itself: a loop prints and breaks exactly when the count it
\* reads after an add_object is above 10, and it has left the loop then
BreaksExactlyPastThreshold ==
    \A c \in CollectionIds :
        /\ c \in stopped <=> last_read[c] > ErrorThreshold
        /\ c \in stopped => pc # LoopPc(c)
        /\ Len(submitted[c]) <= visited[c]

\* C11 as stated: a loop is cut short only by reading a count above 10 and
\* submits nothing after it; with a count of 10 or fewer every source record
\* of the collection is visited; a loop stopped this way is followed by the
\* loops of the next collections, so at the end of the run every loop that
\* was not stopped by the threshold has taken all its records.
C11_OnlyThresholdCutsLoop ==
    /\ BreaksExactlyPastThreshold
    /\ ScriptEnded =>
         \A c \in CollectionIds :
             c \notin stopped => visited[c] = Len(Source(c))

\* the same at the end of a run in which no record raised: it holds there,
\* so C11 fails through the raising records of C10 alone
C11_HoldsWhenNoRecordRaises ==
    /\ BreaksExactlyPastThreshold
    /\ pc = "ingest_done" =>
         \A c \in CollectionIds :
             c \notin stopped => visited[c] = Len(Source(c))

\* a run that stopped the rules loop on a count of 11 with a record left,
\* kept going through the rulings loop on a count of 10, and ended
C11_Reached ==
    /\ pc = "ingest_done"
    /\ "rules" \in stopped /\ visited["rules"] < Len(splitText)
    /\ last_read["rulings"] = ErrorThreshold
    /\ visited["rulings"] = Len(cards_data) /\ Len(cards_data) = 2
    /\ visited["cards"] = Len(cards_data)

----------------------------------------------------------------------------
(* Claims about the order of the collaborator calls, checked under Spec *)

FullLimits == IsNone(limits) \/ DOMAIN limits.some = CollectionIds
CallOrder == <<"rules", "cards", "rulings", "generate">>
IsPrefix(s, t) == Len(s) <= Len(t) /\ \A i \in 1..Len(s) : s[i] = t[i]
InvocationOver == pc \in {"returned", "raised"}

\* the calls are issued one at a time in the order rules, cards, rulings,
\* generate, each search answered before the next call, and the generation
\* request carries the context formatted from the three results
CallsInOrder ==
    /\ IsPrefix(calls, CallOrder)
    /\ \A k \in 1..Len(calls) : calls[k] \in CollectionIds => Searched(calls[k])
    /\ ~IsNone(gen_request) =>
         /\ calls = CallOrder
         /\ gen_request.some.context = context.some
         /\ context.some = format_context_for_llm(search_results).value

\* C12 as stated: with limits omitted or complete, every invocation issues
\* one search per collection in the order rules, cards, rulings and then
\* invokes generation exactly once on the formatted context.
C12_ThreeSearchesThenOneGeneration ==
    FullLimits =>
        /\ CallsInOrder
        /\ InvocationOver => calls = CallOrder

\* the same for the invocations that return: it holds there, so C12 fails
\* through the raising format_context_for_llm of C5 alone
C12_HoldsWhenFormatReturns ==
    FullLimits =>
        /\ CallsInOrder
        /\ pc = "returned" => calls = CallOrder

\* an invocation that returned although no search retained anything
C12_Reached ==
    /\ pc = "returned"
    /\ FullLimits
    /\ calls = CallOrder
    /\ \A c \in CollectionIds : search_results[c] = <<>>
    /\ \E c \in CollectionIds : SearchFailed(c)

----------------------------------------------------------------------------
(* Claim about a limits mapping that lacks keys, checked under Spec *)

\* the try/except block of collection c is behind the program
SearchBlockDone(c) ==
    CASE c = "rules" -> pc \notin {"call", "rules"}
      [] c = "cards" -> pc \notin {"call", "rules", "cards"}
      [] c = "rulings" -> AllSearchesDone

TimesCalled(c) == Cardinality({k \in 1..Len(calls) : calls[k] = c})

\* C13: for a collection whose key the given limits mapping lacks no
\* near_text search is issued and its list is empty, the call does not
\* raise, the collections whose keys are present are searched and filtered
\* as usual, and the default limits are applied only when limits is omitted.
C13_MissingKeyNotSearched ==
    ~IsNone(search_results) =>
        /\ AppliedLimits = IF IsNone(limits) THEN DefaultLimits ELSE limits.some
        /\ pc = "format" => IsNone(outcome)
        /\ \A c \in CollectionIds \ DOMAIN AppliedLimits :
             /\ ~Searched(c)
             /\ TimesCalled(c) = 0
             /\ search_results[c] = <<>>
        /\ \A c \in DOMAIN AppliedLimits :
             SearchBlockDone(c) =>
                 /\ Searched(c)
                 /\ TimesCalled(c) = 1
                 /\ IF SearchFailed(c)
                    THEN search_results[c] = <<>>
                    ELSE IsKeptSubsequence(search_results[c], ReturnedObjs(c),
                                           min_score)

\* limits = {"rules": 1}: rules searched and retained, nothing else searched
C13_Witness ==
    /\ pc = "format"
    /\ ~IsNone(limits)
    /\ DOMAIN limits.some = {"rules"}
    /\ calls = <<"rules">>
    /\ search_results["rules"] # <<>>
    /\ search_results["cards"] = <<>> /\ search_results["rulings"] = <<>>

=============================================================================
